---- MODULE Spec2Model ----
(***************************************************************************)
(* The task execution engine of ai-browser-agent:                          *)
(*   GeminiClient.execute_task / analyze_page_and_plan / clear_history     *)
(*   (src/src/llm/gemini_client.py), BrowserController.get_page_content /  *)
(*   execute_action (src/src/browser/controller.py) and the callers of     *)
(*   execute_task in src/src/main.py with the task sub-command's           *)
(*   --max-steps option (src/src/cli/parser.py).                           *)
(*                                                                         *)
(* execute_task is a coroutine: it is modelled as a process whose pc moves *)
(* from one await to the next.  The browser driver and the model provider  *)
(* are the environment: every call to them picks its outcome from a small  *)
(* set.  Timestamps are an abstract clock value in a snapshot and are left  *)
(* out of the history records (no claim reads them).  The client's other   *)
(* entry points (handle_error_recovery, get_conversation_summary) and      *)
(* direct calls of execute_action are calls made between runs; their       *)
(* arguments and results are kept in the variable call.                    *)
(***************************************************************************)
EXTENDS Integers, Sequences, FiniteSets, TLC

VARIABLES
    mode,                  \* who drives the client: "cli", "interactive", "api"
    args_max_steps,        \* args.max_steps of the task sub-command
    runs,                  \* execute_task calls made so far
    deviations,            \* environment outcomes off the plain path so far
    pc,                    \* position of the execute_task coroutine
    task,                  \* execute_task: task
    max_steps,             \* execute_task: max_steps
    step_count,            \* execute_task: step_count
    task_completed,        \* execute_task: task_completed
    execution_log,         \* execute_task: execution_log
    page_content,          \* execute_task: page_content
    analysis,              \* execute_task: analysis
    summary,               \* value returned by execute_task
    exit_path,             \* the statement through which the loop was left
    trace,                 \* boundary calls of the current run, one entry per step
    conversation_history,  \* GeminiClient.conversation_history
    call                   \* the last call of another entry point, with its result

vars == << mode, args_max_steps, runs, deviations, pc, task, max_steps,
           step_count, task_completed, execution_log, page_content, analysis,
           summary, exit_path, trace, conversation_history, call >>

---------------------------------------------------------------------------
(* Bounds of the exploration *)

\* execute_task calls per process (interactive / api mode)
MaxRuns == 2
\* largest explicit max_steps argument and --max-steps value tried
MaxSteps == 2
\* environment outcomes off the plain path (snapshot ok, one non-completing
\* action, driver ok) per behaviour
MaxDeviations == 1

(* Program constants *)

\* execute_task(self, page, task, max_steps = 10)
DefaultMaxSteps == 10
\* task_parser.add_argument('--max-steps', type=int, default=10)
ParserDefaultMaxSteps == 10
\* self.conversation_history[-5:]
HistoryWindow == 5

\* The engine never inspects the text of a task: the n-th task given to the
\* client is identified by n.
TaskOf(n) == n
Url == "http://site/"
Title == "Site"

\* dict.get(key, default)
Get(d, key, default) == IF key \in DOMAIN d THEN d[key] ELSE default

---------------------------------------------------------------------------
(* Actions of a plan *)

ActionTypes == {"click", "type", "navigate", "wait", "scroll", "select"}

ActA    == [type |-> "click", selector |-> "#a",    completes_task |-> FALSE]
ActDone == [type |-> "click", selector |-> "#done", completes_task |-> TRUE]
ActBad  == [type |-> "hover", selector |-> "#a",    completes_task |-> FALSE]
ActEmpty == [type |-> "click", selector |-> "",     completes_task |-> FALSE]
ActScrollDown == [type |-> "scroll", direction |-> "down"]
ActScrollLeft == [type |-> "scroll", direction |-> "left"]

\* Texts the model provider may return: prose without a payload, or a
\* payload listing candidate actions.
Text(payload, candidates) == [payload |-> payload, candidates |-> candidates]
NoText == Text(FALSE, << >>)
ModelTexts ==
    { NoText,
      Text(TRUE, << >>),
      Text(TRUE, << ActA >>),
      Text(TRUE, << ActDone >>),
      Text(TRUE, << ActA, ActDone >>),
      Text(TRUE, << ActBad >>),
      Text(TRUE, << ActBad, ActA >>),
      Text(TRUE, << ActEmpty, ActA >>) }
PlainText == Text(TRUE, << ActA >>)

FailedPlan(e) == [success |-> FALSE, error |-> e, actions |-> << >>]
OkPlan(as)    == [success |-> TRUE,  error |-> "",  actions |-> as]
NoPlan        == [success |-> TRUE,  error |-> "",  actions |-> << >>]

\* The fields of an action that execute_action reads without a default
RequiredFields(type) ==
    CASE type = "click"    -> {"selector"}
      [] type = "type"     -> {"selector", "text"}
      [] type = "navigate" -> {"url"}
      [] type = "wait"     -> {"selector"}
      [] type = "select"   -> {"selector", "value"}
      [] OTHER             -> {}

\* ResponseParser: validation of one candidate action
ValidAction(a) ==
    /\ Get(a, "type", "") \in ActionTypes
    /\ \A f \in RequiredFields(a.type) : Get(a, f, "") # ""

\* the parser without its validation of the candidates
parse_action_plan_unvalidated(text) ==
    IF ~text.payload
    THEN FailedPlan("unparseable response")
    ELSE OkPlan(text.candidates)

\* ResponseParser.parse_action_plan
parse_action_plan(text) ==
    IF ~text.payload
    THEN FailedPlan("unparseable response")
    ELSE LET valid == SelectSeq(text.candidates, ValidAction)
         IN  IF Len(text.candidates) = 1 /\ valid = << >>
             THEN FailedPlan("no valid action")
             ELSE OkPlan(valid)

---------------------------------------------------------------------------
(* BrowserController *)

\* asyncio.get_event_loop().time()
Now == "now"

FullContent ==
    [title |-> Title, url |-> Url, text_content |-> "text",
     interactive_elements |-> << >>, forms |-> << >>, timestamp |-> Now]
DegradedContent ==
    [title |-> Title, url |-> Url, error |-> "evaluate failed", timestamp |-> Now]
NoContent == [title |-> "", url |-> ""]

SnapshotOutcomes == {"full", "degraded", "raise"}
DriverOutcomes == {"ok", "fail"}

\* str(e) of the exceptions the boundaries raise
PageClosedError == "page closed"
DriverError == "timeout"
ProviderError == "provider error"

\* The exceptions a provider request raises: one with a message and one
\* constructed without arguments (TimeoutError()), and str(e) of each
ProviderException(message) == [exception |-> "Exception", message |-> message]
ProviderExceptions == { ProviderException(ProviderError), ProviderException("") }
str(e) == e.message

\* How a call ends: it returns a value or raises an exception
Returned(v) == [raised |-> FALSE, value |-> v, error |-> ""]
Raised(e)   == [raised |-> TRUE,  value |-> << >>, error |-> e]

\* get_page_content without its try/except: a failed extraction escapes
get_page_content_unguarded(o) ==
    IF o = "full" THEN Returned(FullContent) ELSE Raised(PageClosedError)

\* BrowserController.get_page_content.  "full": every extraction succeeds;
\* "degraded": an evaluate call raises and the handler still reads title
\* and url; "raise": page.title() raises in the handler too (page closed).
get_page_content(o) ==
    CASE o = "full"     -> Returned(FullContent)
      [] o = "degraded" -> Returned(DegradedContent)
      [] o = "raise"    -> Raised(PageClosedError)

\* the driver contacted before the type of the action is looked at
driver_calls_anyType(action) == 1

\* BrowserController.execute_action: the driver primitives it invokes for
\* an action.  A scroll whose direction is neither "down" nor "up" and an
\* action of an unrecognized type invoke none.
driver_calls(action) ==
    LET type == Get(action, "type", "") IN
    IF type \notin ActionTypes THEN 0
    ELSE IF type = "scroll"
    THEN IF Get(action, "direction", "down") \in {"down", "up"} THEN 1 ELSE 0
    ELSE 1

\* the message of a successful execution
DoneMessage(action) ==
    IF Get(action, "type", "") = "scroll"
    THEN << "Scrolled", Get(action, "direction", "down") >>
    ELSE << "Done", Get(action, "selector", "") >>

\* execute_action without its try/except: the driver's exception escapes
execute_action_unguarded(action, driver) ==
    IF Get(action, "type", "") \in ActionTypes
    THEN IF driver_calls(action) = 0 \/ driver = "ok"
         THEN Returned([success |-> TRUE, message |-> DoneMessage(action)])
         ELSE Raised(DriverError)
    ELSE Returned([success |-> FALSE,
                   message |-> << "Unknown action type", Get(action, "type", "") >>])

\* BrowserController.execute_action: the driver primitive of a recognized
\* type either returns or raises; the raise is caught and returned.
execute_action(action, driver) ==
    IF Get(action, "type", "") \in ActionTypes
    THEN IF driver_calls(action) = 0 \/ driver = "ok"
         THEN Returned([success |-> TRUE, message |-> DoneMessage(action)])
         ELSE Returned([success |-> FALSE,
                        message |-> << "Action failed", DriverError >>])
    ELSE Returned([success |-> FALSE,
                   message |-> << "Unknown action type", Get(action, "type", "") >>])

---------------------------------------------------------------------------
(* GeminiClient *)

PageAnalysisRecord(t, content, plan) ==
    [type |-> "page_analysis", task |-> t, page_url |-> Get(content, "url", ""),
     action_plan |-> plan]

TaskExecutionRecord(t, steps, completed, log) ==
    [type |-> "task_execution", task |-> t, steps |-> steps,
     completed |-> completed, execution_log |-> log]

NoSummary == [kind |-> "none", n |-> 0, error |-> ""]
CompletedSummary(steps) == [kind |-> "completed", n |-> steps, error |-> ""]
MaxStepsSummary(ms)     == [kind |-> "max_steps", n |-> ms, error |-> ""]
FailedSummary(steps, e) == [kind |-> "failed", n |-> steps, error |-> e]

\* No call of another entry point since the last run or clear
NoCall == [op |-> "none"]

\* One entry of trace: what the boundary calls of a step did
TraceEntry(snapshot, response, text, plan, driver) ==
    [snapshot |-> snapshot, response |-> response, text |-> text,
     plan |-> plan, driver |-> driver]

Init ==
    /\ mode \in {"cli", "interactive", "api"}
    /\ args_max_steps = ParserDefaultMaxSteps
    /\ runs = 0
    /\ deviations = 0
    /\ pc = "idle"
    /\ task = TaskOf(0)
    /\ max_steps = 0
    /\ step_count = 0
    /\ task_completed = FALSE
    /\ execution_log = << >>
    /\ page_content = NoContent
    /\ analysis = NoPlan
    /\ summary = NoSummary
    /\ exit_path = "none"
    /\ trace = << >>
    /\ conversation_history = << >>
    /\ call = NoCall

\* execute_task, lines 65-69: the locals of a new run
StartRun(ms) ==
    /\ pc = "idle"
    /\ pc' = "while"
    /\ runs' = runs + 1
    /\ task' = TaskOf(runs + 1)
    /\ max_steps' = ms
    /\ step_count' = 0
    /\ task_completed' = FALSE
    /\ execution_log' = << >>
    /\ page_content' = NoContent
    /\ analysis' = NoPlan
    /\ summary' = NoSummary
    /\ exit_path' = "none"
    /\ trace' = << >>
    /\ call' = NoCall
    /\ UNCHANGED << mode, deviations, conversation_history >>

\* main.execute_task_command: one run per process; args.max_steps is parsed
\* and execute_task is called without it.
ExecuteTaskCommand(n) ==
    /\ mode = "cli"
    /\ runs = 0
    /\ args_max_steps' = n
    /\ StartRun(DefaultMaxSteps)

\* main.execute_interactive_mode: "task <description>"
InteractiveTask ==
    /\ mode = "interactive"
    /\ runs < MaxRuns
    /\ UNCHANGED args_max_steps
    /\ StartRun(DefaultMaxSteps)

\* a direct call execute_task(page, task, max_steps)
ExecuteTask(ms) ==
    /\ mode = "api"
    /\ runs < MaxRuns
    /\ UNCHANGED args_max_steps
    /\ StartRun(ms)

\* the loop condition with the budget test off by one, either way
LoopCondition_le(sc, ms, tc) == sc <= ms /\ ~tc
LoopCondition_short(sc, ms, tc) == sc + 1 < ms /\ ~tc

\* the loop condition without the budget test
LoopCondition_noBudget(sc, ms, tc) == ~tc

\* execute_task, line 71: the loop condition
LoopCondition(sc, ms, tc) == sc < ms /\ ~tc

\* the failure test left out
PlanFailed_never(plan) == FALSE

\* execute_task, line 84: the plan reports a failure
PlanFailed(plan) == ~Get(plan, "success", TRUE)

\* the last action of the plan taken instead of the first
FirstAction_last(actions) == actions[Len(actions)]

\* execute_task, line 94: the action that is executed
FirstAction(actions) == actions[1]

\* the completion test reading the outcome only
IsComplete_outcomeOnly(action, result) == Get(result, "task_complete", FALSE)

\* execute_task, line 104: the completion test
IsComplete(action, result) ==
    Get(action, "completes_task", FALSE) \/ Get(result, "task_complete", FALSE)

\* execute_task, lines 97-101 and 112-115: the two shapes of a log entry
\* the entry numbered from zero, as if written before the increment
ActionEntry_zeroBased(step, action, result) ==
    [step |-> step - 1, action |-> action, result |-> result]

ActionEntry(step, action, result) ==
    [step |-> step, action |-> action, result |-> result]
ErrorEntry(step, e) == [step |-> step, error |-> e]

\* analyze_page_and_plan, lines 34-61: the plan returned for a provider
\* outcome; whatever is raised inside the try becomes a failed plan
PlanOf(response, text) ==
    IF response = "raise" THEN FailedPlan(str(text))
                          ELSE parse_action_plan(text)

\* analyze_page_and_plan, lines 44-51: the history after the call; the
\* record is appended once the parser has returned
HistoryAfterPlan(history, t, content, response, text) ==
    IF response = "raise"
    THEN history
    ELSE Append(history, PageAnalysisRecord(t, content, parse_action_plan(text)))

\* recovery with the candidates of the payload taken as they are
RecoveryPlanOf_lax(response, text) ==
    IF response = "raise" THEN FailedPlan(str(text))
                          ELSE parse_action_plan_unvalidated(text)

\* handle_error_recovery, lines 139-155: the plan returned for a provider
\* outcome
RecoveryPlanOf(response, text) ==
    IF response = "raise" THEN FailedPlan(str(text))
                          ELSE parse_action_plan(text)

\* recovery recording its plan the way analyze_page_and_plan does
RecoveryHistory_recorded(history, t, content, response, text) ==
    IF response = "raise"
    THEN history
    ELSE Append(history, PageAnalysisRecord(t, content, parse_action_plan(text)))

\* handle_error_recovery, lines 139-147: the history after the call; the
\* method never touches conversation_history
RecoveryHistory(history, t, content, response, text) == history

\* handle_error_recovery, line 144: the requests made to the provider; the
\* call is made once, outside any loop, whether it returns or raises
RecoveryRequests(response) == 1

\* the first records returned instead of the last ones
get_conversation_summary_first(history) ==
    [total_interactions |-> Len(history),
     tasks_executed |->
         Cardinality({ i \in 1..Len(history) : history[i].type = "task_execution" }),
     pages_analyzed |->
         Cardinality({ i \in 1..Len(history) : history[i].type = "page_analysis" }),
     history |-> SubSeq(history, 1,
                        IF Len(history) < HistoryWindow THEN Len(history)
                                                        ELSE HistoryWindow)]

\* GeminiClient.get_conversation_summary
get_conversation_summary(history) ==
    [total_interactions |-> Len(history),
     tasks_executed |->
         Cardinality({ i \in 1..Len(history) : history[i].type = "task_execution" }),
     pages_analyzed |->
         Cardinality({ i \in 1..Len(history) : history[i].type = "page_analysis" }),
     history |-> SubSeq(history,
                        IF Len(history) < HistoryWindow
                        THEN 1 ELSE Len(history) - HistoryWindow + 1,
                        Len(history))]

\* the summary chosen without looking at task_completed
Finish_budgetMessage(completed, steps, log, history, path) ==
    /\ summary' = MaxStepsSummary(max_steps)
    /\ conversation_history' =
           Append(history, TaskExecutionRecord(task, steps, completed, log))
    /\ exit_path' = path
    /\ pc' = "done"

\* execute_task, lines 118-134: summary, history record, return
Finish(completed, steps, log, history, path) ==
    /\ summary' = IF completed THEN CompletedSummary(steps)
                               ELSE MaxStepsSummary(max_steps)
    /\ conversation_history' =
           Append(history, TaskExecutionRecord(task, steps, completed, log))
    /\ exit_path' = path
    /\ pc' = "done"

\* execute_task, lines 71-73: the loop test holds
LoopStep ==
    /\ pc = "while"
    /\ LoopCondition(step_count, max_steps, task_completed)
    /\ step_count' = step_count + 1
    /\ pc' = "snapshot"
    /\ UNCHANGED << call, mode, args_max_steps, runs, deviations, task, max_steps,
                    task_completed, execution_log, page_content, analysis,
                    summary, exit_path, trace, conversation_history >>

\* execute_task, line 71 then 118-134: the loop test fails
LoopExit ==
    /\ pc = "while"
    /\ ~LoopCondition(step_count, max_steps, task_completed)
    /\ Finish(task_completed, step_count, execution_log, conversation_history,
              "while_71")
    /\ UNCHANGED << call, mode, args_max_steps, runs, deviations, task, max_steps,
                    step_count, task_completed, execution_log, page_content,
                    analysis, trace >>

\* the environment leaves the plain path (snapshot built, one non-completing
\* action planned, driver call returns) only MaxDeviations times, and in the
\* first MaxSteps steps of a run
Deviate(plain) ==
    IF plain THEN UNCHANGED deviations
             ELSE /\ deviations < MaxDeviations
                  /\ step_count <= MaxSteps
                  /\ deviations' = deviations + 1

\* execute_task, lines 110-116: the handler of an exception raised in a step
HandleStepError(e) ==
    /\ execution_log' = Append(execution_log, ErrorEntry(step_count, e))
    /\ Finish(task_completed, step_count, execution_log', conversation_history,
              "break_116")

\* execute_task, line 79: build the snapshot of the step
GetPageContent(o) ==
    /\ pc = "snapshot"
    /\ Deviate(o = "full")
    /\ trace' = Append(trace, TraceEntry(o, "none", NoText, NoPlan, "none"))
    /\ LET r == get_page_content(o)
       IN  IF r.raised
           THEN /\ HandleStepError(r.error)
                /\ UNCHANGED page_content
           ELSE /\ page_content' = r.value
                /\ pc' = "plan"
                /\ UNCHANGED << execution_log, summary, exit_path,
                                conversation_history >>
    /\ UNCHANGED << call, mode, args_max_steps, runs, task, max_steps, step_count,
                    task_completed, analysis >>

\* trace with the last entry's calls filled in
SetLast(tr, response, text, plan, driver) ==
    [tr EXCEPT ![Len(tr)] =
        TraceEntry(tr[Len(tr)].snapshot, response, text, plan, driver)]

\* execute_task, line 89: the plan holds no action
NoActions(actions) == actions = << >>

\* execute_task, lines 82-91: the planning call and the tests on its plan
AnalyzePageAndPlan(response, text) ==
    /\ pc = "plan"
    /\ response = "raise" <=> text \in ProviderExceptions
    /\ Deviate(response = "text" /\ text = PlainText)
    /\ LET plan == PlanOf(response, text)
           history == HistoryAfterPlan(conversation_history, task, page_content,
                                       response, text)
       IN  /\ analysis' = plan
           /\ trace' = SetLast(trace, response, text, plan, "none")
           /\ IF PlanFailed(plan)
              THEN /\ summary' = FailedSummary(step_count, Get(plan, "error", ""))
                   /\ conversation_history' = history
                   /\ exit_path' = "return_85"
                   /\ pc' = "done"
                   /\ UNCHANGED task_completed
              ELSE IF NoActions(Get(plan, "actions", << >>))
              THEN /\ task_completed' = TRUE
                   /\ Finish(TRUE, step_count, execution_log, history, "break_91")
              ELSE /\ conversation_history' = history
                   /\ pc' = "execute"
                   /\ UNCHANGED << task_completed, summary, exit_path >>
    /\ UNCHANGED << call, mode, args_max_steps, runs, task, max_steps, step_count,
                    execution_log, page_content >>

\* execute_task, lines 94-108: execute the first action, log it, test for
\* completion, sleep
ExecuteAction(driver) ==
    /\ pc = "execute"
    /\ Deviate(driver = "ok")
    /\ trace' = SetLast(trace, trace[Len(trace)].response, trace[Len(trace)].text,
                        trace[Len(trace)].plan, driver)
    /\ LET action == FirstAction(analysis.actions)
           r == execute_action(action, driver)
       IN  IF r.raised
           THEN /\ HandleStepError(r.error)
                /\ UNCHANGED task_completed
           ELSE /\ execution_log' =
                       Append(execution_log, ActionEntry(step_count, action, r.value))
                /\ task_completed' = IF IsComplete(action, r.value)
                                     THEN TRUE ELSE task_completed
                /\ pc' = "while"
                /\ UNCHANGED << summary, exit_path, conversation_history >>
    /\ UNCHANGED << call, mode, args_max_steps, runs, task, max_steps, step_count,
                    page_content, analysis >>

\* main.py, lines 82 and 131: the caller prints the returned summary
PrintResult ==
    /\ pc = "done"
    /\ pc' = "idle"
    /\ UNCHANGED << call, mode, args_max_steps, runs, deviations, task, max_steps,
                    step_count, task_completed, execution_log, page_content,
                    analysis, summary, exit_path, trace, conversation_history >>

\* GeminiClient.clear_history
ClearHistory ==
    /\ mode = "api"
    /\ pc = "idle"
    /\ conversation_history # << >>
    /\ conversation_history' = << >>
    /\ call' = NoCall
    /\ UNCHANGED << mode, args_max_steps, runs, deviations, pc, task, max_steps,
                    step_count, task_completed, execution_log, page_content,
                    analysis, summary, exit_path, trace >>

\* A cancellation (SIGINT, task.cancel()) delivered while one of the step's
\* boundary calls is awaited: the exception raised at the await is no
\* Exception, so the handler of line 110 does not catch it and it leaves
\* execute_task; main catches KeyboardInterrupt and the process ends.
Cancel ==
    /\ pc \in {"snapshot", "plan", "execute"}
    /\ Deviate(FALSE)
    /\ pc' = "cancelled"
    /\ exit_path' = "cancelled"
    /\ UNCHANGED << call, mode, args_max_steps, runs, task, max_steps,
                    step_count, task_completed, execution_log, page_content,
                    analysis, summary, trace, conversation_history >>

\* Provider texts answering a recovery request
RecoveryTexts ==
    { NoText, PlainText, Text(TRUE, << ActBad >>), Text(TRUE, << ActBad, ActA >>) }

\* GeminiClient.handle_error_recovery(page_content, error, original_task),
\* called between runs with the last snapshot
HandleErrorRecovery(response, text) ==
    /\ mode = "api"
    /\ pc = "idle"
    /\ response = "raise" <=> text \in ProviderExceptions
    /\ Deviate(response = "text" /\ text = PlainText)
    /\ call' = [op |-> "recover", response |-> response, text |-> text,
                result |-> RecoveryPlanOf(response, text),
                requests |-> RecoveryRequests(response)]
    /\ conversation_history' =
           RecoveryHistory(conversation_history, task, page_content, response, text)
    /\ UNCHANGED << mode, args_max_steps, runs, pc, task, max_steps, step_count,
                    task_completed, execution_log, page_content, analysis,
                    summary, exit_path, trace >>

\* GeminiClient.get_conversation_summary, called between runs
GetConversationSummary ==
    /\ mode = "api"
    /\ pc = "idle"
    /\ call' = [op |-> "summary",
                result |-> get_conversation_summary(conversation_history)]
    /\ UNCHANGED << mode, args_max_steps, runs, deviations, pc, task, max_steps,
                    step_count, task_completed, execution_log, page_content,
                    analysis, summary, exit_path, trace, conversation_history >>

\* Actions given to a direct call of execute_action
DirectActions == {ActA, ActBad, ActScrollDown, ActScrollLeft}

\* BrowserController.execute_action(page, action), called between runs
ExecuteActionCall(a, driver) ==
    /\ mode = "api"
    /\ pc = "idle"
    /\ driver_calls(a) = 0 => driver = "ok"
    /\ Deviate(driver = "ok")
    /\ call' = [op |-> "execute_action", action |-> a, driver |-> driver,
                outcome |-> execute_action(a, driver),
                driver_calls |-> driver_calls(a)]
    /\ UNCHANGED << mode, args_max_steps, runs, pc, task, max_steps, step_count,
                    task_completed, execution_log, page_content, analysis,
                    summary, exit_path, trace, conversation_history >>

StepArgs == (0 - 1) .. MaxSteps
CliArgs == (1 .. MaxSteps) \cup {ParserDefaultMaxSteps}

Next ==
    \/ \E n \in CliArgs : ExecuteTaskCommand(n)
    \/ InteractiveTask
    \/ \E ms \in StepArgs : ExecuteTask(ms)
    \/ LoopStep
    \/ LoopExit
    \/ \E o \in SnapshotOutcomes : GetPageContent(o)
    \/ \E text \in ModelTexts : AnalyzePageAndPlan("text", text)
    \/ \E e \in ProviderExceptions : AnalyzePageAndPlan("raise", e)
    \/ \E d \in DriverOutcomes : ExecuteAction(d)
    \/ PrintResult
    \/ ClearHistory
    \/ Cancel
    \/ \E text \in RecoveryTexts : HandleErrorRecovery("text", text)
    \/ \E e \in ProviderExceptions : HandleErrorRecovery("raise", e)
    \/ GetConversationSummary
    \/ \E a \in DirectActions, d \in DriverOutcomes : ExecuteActionCall(a, d)

Spec == Init /\ [][Next]_vars

\* A step of the coroutine execute_task: the loop test, or the continuation
\* after an awaited boundary call has returned or raised
RunStep ==
    \/ LoopStep
    \/ LoopExit
    \/ \E o \in SnapshotOutcomes : GetPageContent(o)
    \/ \E text \in ModelTexts : AnalyzePageAndPlan("text", text)
    \/ \E e \in ProviderExceptions : AnalyzePageAndPlan("raise", e)
    \/ \E d \in DriverOutcomes : ExecuteAction(d)

\* The runs of execute_task alone: their callers, their steps and their
\* cancellation, with no call of another entry point between them
RunNext ==
    \/ \E n \in CliArgs : ExecuteTaskCommand(n)
    \/ InteractiveTask
    \/ \E ms \in StepArgs : ExecuteTask(ms)
    \/ RunStep
    \/ PrintResult
    \/ Cancel

\* Every awaited snapshot, provider and driver call returns or raises, and
\* the event loop then resumes the coroutine
LiveSpec == Init /\ [][RunNext]_vars /\ WF_vars(RunStep)

---------------------------------------------------------------------------
(* The terminal states of a run, read off the statement that left the loop *)

\* COMPLETED / EXHAUSTED / ABORTED: a run is ABORTED when it returns at line
\* 85 or breaks in the handler of line 116, COMPLETED when task_completed is
\* set, EXHAUSTED when the loop test failed with task_completed unset.
TerminalState ==
    CASE exit_path \in {"return_85", "break_116"} -> "ABORTED"
      [] exit_path = "break_91" -> "COMPLETED"
      [] exit_path = "while_71" -> IF task_completed THEN "COMPLETED"
                                                     ELSE "EXHAUSTED"
      [] exit_path = "cancelled" -> "CANCELLED"
      [] OTHER -> "RUNNING"

RunEnded == runs > 0 /\ pc \in {"done", "idle"}

\* the log entry of step k made for an executed action, if any
ActionEntriesOf(k) ==
    { i \in 1..Len(execution_log) :
        /\ execution_log[i].step = k
        /\ "result" \in DOMAIN execution_log[i] }

CountType(history, type) ==
    Cardinality({ i \in 1..Len(history) : history[i].type = type })

---------------------------------------------------------------------------
(* Claims *)

C2_FailedPlanAborts ==
    \A k \in 1..Len(trace) :
        (trace[k].response # "none" /\ ~trace[k].plan.success) =>
            /\ k = Len(trace)
            /\ step_count = k
            /\ RunEnded
            /\ TerminalState = "ABORTED"
            /\ summary = FailedSummary(k, trace[k].plan.error)
            /\ trace[k].driver = "none"
            /\ \A i \in 1..Len(execution_log) : execution_log[i].step < k

C2_Witness ==
    /\ pc = "done"
    /\ Len(trace) >= 2
    /\ trace[Len(trace)].response # "none"
    /\ ~trace[Len(trace)].plan.success

\* C3: when the action executed at step k carries completes_task, or its
\* outcome carries task_complete, the run ends COMPLETED with steps = k and
\* step k+1 is never begun.
C3_CompletionStopsTheRun ==
    \A i \in 1..Len(execution_log) :
        LET e == execution_log[i] IN
        ("action" \in DOMAIN e
           /\ (Get(e.action, "completes_task", FALSE)
                 \/ Get(e.result, "task_complete", FALSE))) =>
            /\ i = Len(execution_log)
            /\ step_count = e.step
            /\ Len(trace) = e.step
            /\ pc \in {"while", "done", "idle"}
            /\ pc # "while" =>
                   /\ TerminalState = "COMPLETED"
                   /\ summary = CompletedSummary(e.step)

C3_Witness ==
    /\ pc = "done"
    /\ step_count >= 2
    /\ step_count < max_steps
    /\ execution_log # << >>
    /\ execution_log[Len(execution_log)].step = step_count
    /\ "action" \in DOMAIN execution_log[Len(execution_log)]
    /\ execution_log[Len(execution_log)].action.completes_task

\* every step of the run so far got a plan of exactly one non-completing
\* action and executed it successfully
AllStepsPlain ==
    \A k \in 1..Len(trace) :
        /\ trace[k].snapshot # "raise"
        /\ trace[k].response = "text"
        /\ trace[k].plan.success
        /\ Len(trace[k].plan.actions) = 1
        /\ ~trace[k].plan.actions[1].completes_task
        /\ trace[k].driver = "ok"

\* C4: with max_steps = N >= 1, a run whose every step gets exactly one
\* non-completing action that executes successfully ends EXHAUSTED after
\* exactly N steps, with one log entry for each of the steps 1..N.
C4_PlainRunExhausts ==
    (RunEnded /\ max_steps >= 1 /\ AllStepsPlain) =>
        /\ step_count = max_steps
        /\ Len(trace) = max_steps
        /\ TerminalState = "EXHAUSTED"
        /\ ~task_completed
        /\ summary = MaxStepsSummary(max_steps)
        /\ Len(execution_log) = max_steps
        /\ \A i \in 1..Len(execution_log) :
               /\ execution_log[i].step = i
               /\ "result" \in DOMAIN execution_log[i]

C4_Witness ==
    /\ pc = "done"
    /\ mode = "api"
    /\ max_steps = MaxSteps
    /\ AllStepsPlain
    /\ Len(execution_log) = MaxSteps

\* C5: a run with max_steps <= 0 makes no iteration: no snapshot, planning
\* call or action, and it ends EXHAUSTED with steps = 0 and an empty log.
C5_NoBudgetNoIteration ==
    (runs > 0 /\ pc # "idle" /\ max_steps <= 0) =>
        /\ step_count = 0
        /\ trace = << >>
        /\ execution_log = << >>
        /\ pc \in {"while", "done"}
        /\ pc = "done" =>
               /\ TerminalState = "EXHAUSTED"
               /\ summary = MaxStepsSummary(max_steps)
               /\ conversation_history # << >>
               /\ conversation_history[Len(conversation_history)] =
                      TaskExecutionRecord(task, 0, FALSE, << >>)

C5_Witness ==
    /\ pc = "done"
    /\ max_steps < 0
    /\ summary.kind = "max_steps"

\* every planning call of the run so far returned a successful plan with
\* an empty action list
AllPlansEmpty ==
    \A k \in 1..Len(trace) :
        /\ trace[k].snapshot # "raise"
        /\ trace[k].response = "text"
        /\ trace[k].plan.success
        /\ trace[k].plan.actions = << >>

\* C6: with max_steps >= 1, a run against a model that always returns a
\* successful plan with no action ends COMPLETED after exactly step 1, with
\* one snapshot, one planning call and no call of the action executor.
C6_EmptyPlanCompletesAtStepOne ==
    (RunEnded /\ max_steps >= 1 /\ AllPlansEmpty) =>
        /\ step_count = 1
        /\ Len(trace) = 1
        /\ trace[1].response = "text"
        /\ trace[1].driver = "none"
        /\ execution_log = << >>
        /\ task_completed
        /\ TerminalState = "COMPLETED"
        /\ summary = CompletedSummary(1)

C6_Witness ==
    /\ pc = "done"
    /\ max_steps >= 2
    /\ Len(trace) = 1
    /\ AllPlansEmpty

\* the error that aborted the run: the failed plan's error, or the text of
\* the exception logged by the handler
AbortCause ==
    IF exit_path = "return_85"
    THEN analysis.error
    ELSE execution_log[Len(execution_log)].error

\* C7: the returned summary identifies the terminal state: the success
\* summary with the step count exactly when COMPLETED, the step-budget
\* message exactly when EXHAUSTED, and a failure message with the causing
\* error whenever ABORTED.
C7_SummaryIdentifiesTerminalState ==
    pc = "done" =>
        /\ summary.kind = "completed" <=> TerminalState = "COMPLETED"
        /\ summary.kind = "max_steps" <=> TerminalState = "EXHAUSTED"
        /\ TerminalState = "COMPLETED" => summary.n = step_count
        /\ TerminalState = "ABORTED" =>
               /\ summary.kind = "failed"
               /\ summary.error = AbortCause

\* C8: every run, whatever its terminal state, has appended its
\* task_execution record (task, steps, completed, log) when it returns.
C8_EveryRunIsRecorded ==
    pc = "done" =>
        /\ conversation_history # << >>
        /\ conversation_history[Len(conversation_history)] =
               TaskExecutionRecord(task, step_count, task_completed, execution_log)

\* C9: a planning call appends one page_analysis record when the plan it
\* returns has success = TRUE and none when it has success = FALSE.
C9_OnlySuccessfulPlansAreRecorded ==
    [][ pc = "plan" =>
          CountType(conversation_history', "page_analysis") =
              CountType(conversation_history, "page_analysis")
                  + (IF analysis'.success THEN 1 ELSE 0) ]_vars

\* C10: a task run started from the command line with --max-steps N makes
\* at most N steps.
C10_CommandLineBudgetBoundsTheRun ==
    (mode = "cli" /\ runs > 0) => step_count <= args_max_steps

\* the entries of the log made for an executed action
ActionEntries ==
    { i \in 1..Len(execution_log) : "action" \in DOMAIN execution_log[i] }

\* C11: in every iteration at most one action is executed, and it is the
\* first action of the plan obtained in that iteration from a snapshot
\* built in that iteration; no other action of a plan is executed.
C11_OnlyFirstActionOfFreshPlan ==
    /\ \A i \in ActionEntries :
           LET e == execution_log[i] IN
           /\ e.step \in 1..Len(trace)
           /\ trace[e.step].snapshot # "raise"
           /\ trace[e.step].response = "text"
           /\ trace[e.step].plan.success
           /\ trace[e.step].plan.actions # << >>
           /\ e.action = trace[e.step].plan.actions[1]
           /\ trace[e.step].driver # "none"
           /\ \A j \in ActionEntries : execution_log[j].step = e.step => j = i
    /\ \A k \in 1..Len(trace) :
           trace[k].driver # "none" =>
               \E i \in ActionEntries : execution_log[i].step = k

C11_Witness ==
    /\ pc = "done"
    /\ \E i \in ActionEntries :
           /\ execution_log[i].step >= 2
           /\ Len(trace[execution_log[i].step].plan.actions) >= 2
           /\ execution_log[i].action # trace[execution_log[i].step].plan.actions[2]

\* an action of a recognized type whose required fields are all present
\* and non-empty
ExecutableAction(a) ==
    /\ "type" \in DOMAIN a
    /\ a.type \in {"click", "type", "navigate", "wait", "scroll", "select"}
    /\ a.type \in {"click", "type", "wait", "select"} =>
           ("selector" \in DOMAIN a /\ a.selector # "")
    /\ a.type = "type" => ("text" \in DOMAIN a /\ a.text # "")
    /\ a.type = "navigate" => ("url" \in DOMAIN a /\ a.url # "")
    /\ a.type = "select" => ("value" \in DOMAIN a /\ a.value # "")

\* C12: every action execute_task hands to execute_action is of a
\* recognized type with its required fields present and non-empty.
C12_OnlyValidActionsAreExecuted ==
    /\ \A i \in ActionEntries : ExecutableAction(execution_log[i].action)
    /\ pc = "execute" => ExecutableAction(FirstAction(analysis.actions))

C12_Witness ==
    /\ ActionEntries # {}
    /\ \E k \in 1..Len(trace) :
           /\ trace[k].driver # "none"
           /\ \E c \in 1..Len(trace[k].text.candidates) :
                  ~ExecutableAction(trace[k].text.candidates[c])


----------------------------------------------------------------------------
(* Failed plans, the recovery planner and the conversation summary *)

\* the shape of a plan that reports a failure
FailedPlanShape(p) ==
    /\ Get(p, "actions", "absent") = << >>
    /\ Get(p, "error", "") # ""

\* C13: every plan with success false that analyze_page_and_plan or
\* handle_error_recovery returns has an empty action list and a non-empty
\* error, the plans returned for a provider request that raised included.
C13_FailedPlanHasNoActionsAndAnError ==
    /\ \A k \in 1..Len(trace) :
           (trace[k].response # "none" /\ ~trace[k].plan.success)
               => FailedPlanShape(trace[k].plan)
    /\ (call.op = "recover" /\ ~call.result.success)
           => FailedPlanShape(call.result)

\* a step of Next that is a call of handle_error_recovery
RecoveryStep == pc = "idle" /\ pc' = "idle" /\ call'.op = "recover"

\* C14: a call of the recovery planner makes one provider request and leaves
\* the conversation history, the step count and the execution log as they
\* were, whether it returns a plan or a failure.
C14_RecoveryIsOneRequestAndNoStateChange ==
    [][RecoveryStep =>
          /\ call'.requests = 1
          /\ conversation_history' = conversation_history
          /\ step_count' = step_count
          /\ execution_log' = execution_log]_vars

C14_Witness ==
    /\ call.op = "recover"
    /\ ~call.result.success
    /\ conversation_history # << >>
    /\ execution_log # << >>
    /\ step_count > 0

\* C15: for every provider outcome, the plan handle_error_recovery returns
\* is the plan analyze_page_and_plan returns for that outcome.
C15_RecoveryPlanEqualsNormalPlan ==
    call.op = "recover" => call.result = PlanOf(call.response, call.text)

C15_Witness ==
    /\ call.op = "recover"
    /\ call.response = "text"
    /\ call.result.success
    /\ Len(call.result.actions) < Len(call.text.candidates)

\* the last step of the run has made every one of its boundary calls
LastStepFinished ==
    /\ trace # << >>
    /\ trace[Len(trace)].driver # "none"

\* C16: a cancellation takes effect between steps only: the step in flight
\* finishes its snapshot, planning call and action, and the run ends with a
\* summary of the aborted run.
C16_CancellationWaitsForTheStep ==
    pc = "cancelled" => (LastStepFinished /\ summary.kind = "failed")

\* the records of a summary are the last min(HistoryWindow, n) records of
\* the history, in order, and its counts are taken over the whole history
SummaryOf(r, h) ==
    LET n == Len(h)
        m == IF n < HistoryWindow THEN n ELSE HistoryWindow
    IN  /\ Len(r.history) = m
        /\ \A i \in 1..m : r.history[i] = h[n - m + i]
        /\ r.total_interactions = n
        /\ r.tasks_executed = CountType(h, "task_execution")
        /\ r.pages_analyzed = CountType(h, "page_analysis")

\* a step of Next that is a call of clear_history
ClearStep == pc = "idle" /\ pc' = "idle" /\ call' = NoCall

\* C17: get_conversation_summary returns the last min(5, n) records in order
\* with counts over all n records; a step that is not clear_history keeps
\* every record of the history, appending at the end at most.
C17_SummaryIsLastFiveAndHistoryOnlyGrows ==
    /\ [](call.op = "summary" => SummaryOf(call.result, conversation_history))
    /\ [][ClearStep \/
            /\ Len(conversation_history') >= Len(conversation_history)
            /\ SubSeq(conversation_history', 1, Len(conversation_history))
                  = conversation_history]_vars

C17_Witness ==
    /\ call.op = "summary"
    /\ Len(conversation_history) > HistoryWindow
    /\ call.result.tasks_executed >= 2

----------------------------------------------------------------------------
(* Direct calls of execute_action and the degraded snapshot *)

\* C18: execute_action on an action of an unrecognized type returns success
\* false with a message naming the unknown type and calls no driver
\* primitive.
C18_UnknownTypeFailsWithoutDriverCall ==
    (call.op = "execute_action" /\ Get(call.action, "type", "") \notin ActionTypes)
        => /\ ~call.outcome.raised
           /\ ~call.outcome.value.success
           /\ call.outcome.value.message
                 = << "Unknown action type", Get(call.action, "type", "") >>
           /\ call.driver_calls = 0

C18_Witness ==
    /\ call.op = "execute_action"
    /\ call.action = ActBad
    /\ conversation_history # << >>

\* the value execute_action returns for a driver failure
DriverFailureValue(v) ==
    /\ ~v.success
    /\ v.message = << "Action failed", DriverError >>

\* C19: a driver failure on an action of a recognized type comes back from
\* execute_action as a value with success false and a message; no exception
\* leaves the executor, in a run and in a direct call.
C19_DriverFailureIsAValue ==
    /\ \A k \in 1..Len(trace) :
           trace[k].driver = "fail" =>
               /\ \E i \in ActionEntries :
                      /\ execution_log[i].step = k
                      /\ DriverFailureValue(execution_log[i].result)
               /\ \A i \in 1..Len(execution_log) :
                      execution_log[i].step = k => i \in ActionEntries
    /\ (call.op = "execute_action" /\ call.driver = "fail")
           => /\ ~call.outcome.raised
              /\ DriverFailureValue(call.outcome.value)

C19_Witness ==
    /\ call.op = "execute_action"
    /\ call.driver = "fail"
    /\ call.action.type \in ActionTypes
    /\ call.driver_calls = 1

\* the snapshot of a page whose extraction raised
DegradedSnapshot(c) ==
    /\ DOMAIN c = {"title", "url", "error", "timestamp"}
    /\ c.title = Title
    /\ c.url = Url

\* C20: when the extraction of a snapshot raises, get_page_content returns
\* title, url, error and timestamp and the step goes on to its planning
\* call with that snapshot.
C20_DegradedSnapshotReachesPlanning ==
    \A k \in 1..Len(trace) :
        trace[k].snapshot = "degraded" =>
            /\ \A i \in 1..Len(execution_log) :
                   execution_log[i].step = k => i \in ActionEntries
            /\ \/ trace[k].response # "none"
               \/ /\ k = Len(trace)
                  /\ pc \in {"plan", "cancelled"}
                  /\ DegradedSnapshot(page_content)

C20_Witness ==
    /\ pc = "done"
    /\ \E k \in 1..Len(trace) :
           /\ trace[k].snapshot = "degraded"
           /\ trace[k].response = "text"
           /\ trace[k].driver = "ok"
           /\ k < Len(trace)


----------------------------------------------------------------------------
(* The step counter and the execution log of a run *)

\* the steps a budget allows
StepBudget(ms) == IF ms > 0 THEN ms ELSE 0

\* step_count and the step fields of execution_log
LogIsNumberedByStep ==
    /\ step_count \in 0..StepBudget(max_steps)
    /\ Len(execution_log) <= step_count
    /\ \A i \in 1..Len(execution_log) : execution_log[i].step \in 1..step_count
    /\ \A i, j \in 1..Len(execution_log) :
           i < j => execution_log[i].step < execution_log[j].step

\* a step of a run keeps every entry execution_log holds
LogIsExtended ==
    /\ Len(execution_log') >= Len(execution_log)
    /\ SubSeq(execution_log', 1, Len(execution_log)) = execution_log

\* C21: in every state of a run, 0 <= step_count <= max(max_steps, 0), the
\* execution log holds at most one entry per step with strictly increasing
\* step fields in 1..step_count, and a step of the run appends to the log
\* at most, never changing or removing an entry.
C21_StepCountAndLogOfARun ==
    /\ []LogIsNumberedByStep
    /\ [][pc # "idle" => LogIsExtended]_vars

C21_Witness ==
    /\ pc = "done"
    /\ Len(execution_log) >= 2
    /\ "error" \in DOMAIN execution_log[Len(execution_log)]
    /\ "action" \in DOMAIN execution_log[1]
    /\ step_count = Len(execution_log)
    /\ step_count < max_steps


----------------------------------------------------------------------------
(* Success of execute_action and the driver *)

\* C23: execute_action returns success true only after one driver primitive
\* was invoked for the action and returned without error, in a direct call
\* and for every action entry of a run.
C23_SuccessOnlyAfterOneDriverCall ==
    /\ (call.op = "execute_action" /\ ~call.outcome.raised
            /\ call.outcome.value.success)
           => (call.driver_calls = 1 /\ call.driver = "ok")
    /\ \A i \in ActionEntries :
           execution_log[i].result.success
               => /\ driver_calls(execution_log[i].action) = 1
                  /\ trace[execution_log[i].step].driver = "ok"


----------------------------------------------------------------------------
(* Termination of a run *)

\* the run is inside execute_task
Running == pc \in {"while", "snapshot", "plan", "execute"}

\* execute_task has been left: by a return, or by the exception of a
\* cancellation
Left == pc \in {"done", "idle", "cancelled"}

\* C22: when every snapshot, provider and driver call returns or raises, a
\* run of execute_task is left after at most max(max_steps, 0) passes of the
\* loop, whatever the plans and the driver outcomes are.
C22_EveryRunTerminates ==
    /\ [](Len(trace) <= StepBudget(max_steps))
    /\ Running ~> Left

C22_Witness ==
    /\ pc = "done"
    /\ exit_path = "while_71"
    /\ ~task_completed
    /\ max_steps >= 1
    /\ Len(trace) = max_steps
    /\ \A k \in 1..Len(trace) : trace[k].driver = "fail"

====
